---- MODULE Spec2Model ----
(***************************************************************************)
(* Model of include/react/aggregators/histogram_aggregator.hpp:            *)
(* bucket_t, histogram_t<Bucket> (as histogram1D_t and histogram2D_t),     *)
(* histogram_updater_t, action_time_histogram_updater_t,                   *)
(* histogram_aggregator_t and batch_histogram_aggregator_t.                *)
(*                                                                         *)
(* Sequences are 1-based here and 0-based in the source: a position p of   *)
(* the source is element p + 1 of the sequence.                            *)
(***************************************************************************)
EXTENDS Integers, Sequences, FiniteSets, TLC

(***************************************************************************)
(* Bounds of the model.                                                    *)
(***************************************************************************)
\* width of int in bits (the source's int is 32 bits wide; the model keeps
\* two's complement arithmetic at a smaller width)
IntBits == 4
\* largest ordinary tick value offered to a constructor
MaxTick == 2
\* longest caller-supplied tick sequence of one dimension
MaxTicks == 2
\* updates applied to a stand-alone histogram
MaxUpdates == 3
\* nodes of one call tree
MaxNodes == 2
\* aggregators added to the batch
MaxAggregators == 2
\* measurements counted by the histogram of one aggregator
MaxTotal == 3
\* measurements counted by the histograms of the batch
MaxBatchTotal == 2
\* longest tick sequence of one dimension of the two-dimensional histogram
MaxTicks2D == 1
\* updates applied to the two-dimensional histogram
MaxUpdates2D == 2

\* std::numeric_limits<int>::max() and ::min()
IntMax == 2^(IntBits - 1) - 1
IntMin == -IntMax - 1

\* conversion of a 64-bit value to int (the argument of update): the value
\* modulo 2^IntBits, in two's complement
ToInt(v) == ((v - IntMin) % (2^IntBits)) + IntMin

RECURSIVE SeqsUpTo(_, _)
SeqsUpTo(S, n) ==
    IF n = 0 THEN {<<>>}
    ELSE LET shorter == SeqsUpTo(S, n - 1)
         IN shorter \cup {Append(s, x) : s \in {t \in shorter : Len(t) = n - 1}, x \in S}

\* tick values and tick sequences a caller may pass to a constructor
\* (the constructor takes any std::vector<int>)
TickValues == (0..MaxTick) \cup {IntMax}
TickSeqs == SeqsUpTo(TickValues, MaxTicks)

\* int measurements a caller may pass to update
Measurements == {IntMin, -1} \cup (0..(MaxTick + 1)) \cup {IntMax - 1, IntMax}

\* the same for the two dimensions of the two-dimensional histogram
TickSeqs2D == SeqsUpTo({1, IntMax}, MaxTicks2D)
Measurements2D == {0, 1, 2, IntMax}

\* what a caller passes to the aggregators: action codes, tick sequences,
\* and call trees of nodes with 64-bit start and stop times.  The durations
\* are 0, 1, the largest int, and 2^IntBits, which does not fit an int.
ActionCodes == {1, 2}
AggTickSeqs == {<<>>, <<1>>, <<1, 2>>, <<2, 1>>}
BatchTickSeqs == {<<>>, <<1>>}
StartTimes == {1}
StopTimes == {1, 2, IntMax + 1, 2^IntBits + 1}
Nodes == [code : ActionCodes, start : StartTimes, stop : StopTimes]
CallTrees == SeqsUpTo(Nodes, MaxNodes)
\* the call trees given to the batch: durations 0 and the largest int
BatchNodes == {[code |-> 1, start |-> 1, stop |-> 1],
               [code |-> 1, start |-> 1, stop |-> IntMax + 1],
               [code |-> 2, start |-> 1, stop |-> 1]}
BatchCallTrees == SeqsUpTo(BatchNodes, MaxNodes)

VARIABLES h1, h2, agg, twin, batch, solo, last, crashed

vars == <<h1, h2, agg, twin, batch, solo, last, crashed>>

(***************************************************************************)
(* bucket_t                                                                *)
(***************************************************************************)
\* Bucket(dimensionsTicks...) with an empty pack: bucket_t(), which
\* value-initialises frequency
bucket_t == [frequency |-> 0]

\* (a variant whose counter is one bit wide)
bucket_update_narrow(b) == [b EXCEPT !.frequency = (@ + 1) % 2]

bucket_update(b) == [b EXCEPT !.frequency = @ + 1]

bucket_get(b) == b.frequency

(***************************************************************************)
(* std::upper_bound as the standard library computes it: a halving search  *)
(* that returns the 0-based position of the first element it finds greater *)
(* than val.  On a sequence that is not sorted it still ends, at the       *)
(* position the halving reaches.                                           *)
(***************************************************************************)
\* (a variant that stops at the first element not less than val)
RECURSIVE lower_bound_from(_, _, _, _)
lower_bound_from(s, first, len, val) ==
    IF len <= 0 THEN first
    ELSE LET half == len \div 2
             middle == first + half
         IN IF val <= s[middle + 1]
            THEN lower_bound_from(s, first, half, val)
            ELSE lower_bound_from(s, middle + 1, len - half - 1, val)

RECURSIVE upper_bound_from(_, _, _, _)
upper_bound_from(s, first, len, val) ==
    IF len <= 0 THEN first
    ELSE LET half == len \div 2
             middle == first + half
         IN IF val < s[middle + 1]
            THEN upper_bound_from(s, first, half, val)
            ELSE upper_bound_from(s, middle + 1, len - half - 1, val)

upper_bound(s, val) == upper_bound_from(s, 0, Len(s), val)

(***************************************************************************)
(* histogram_t<Bucket>                                                     *)
(***************************************************************************)
\* the constructor: ticks is the caller's sequence with the sentinel pushed
\* back, buckets is dimensionTicks.size() + 1 copies of one child
histogram_t(dimensionTicks, child) ==
    [ticks   |-> Append(dimensionTicks, IntMax),
     buckets |-> [i \in 1..(Len(dimensionTicks) + 1) |-> child]]

histogram1D_t(ticks1) == histogram_t(ticks1, bucket_t)

histogram2D_t(ticks1, ticks2) == histogram_t(ticks1, histogram1D_t(ticks2))

\* no histogram constructed yet
NoHistogram == [ticks |-> <<>>, buckets |-> <<>>]

(***************************************************************************)
(* A running call is a record [obj, stray, crashed]: the object operated   *)
(* on, and what the process does when buckets[position] is indexed past    *)
(* the end of the vector, which is undefined behaviour.  The write then    *)
(* lands outside every bucket: either in memory nothing reads (the         *)
(* measurement is lost), or it faults and the process ends.  stray is the  *)
(* number of such writes that are lost before one faults; it is an input   *)
(* of every action that updates, and every call of the action starts with  *)
(* it.                                                                     *)
(***************************************************************************)
Call(obj, stray) == [obj |-> obj, stray |-> stray, crashed |-> FALSE]

OutOfRange(c) ==
    IF c.stray > 0 THEN [c EXCEPT !.stray = @ - 1]
    ELSE [c EXCEPT !.crashed = TRUE]

\* histogram_t<bucket_t>::update(measurement)
histogram1D_update(c, measurement) ==
    IF c.crashed THEN c
    ELSE LET position == upper_bound(c.obj.ticks, measurement)
         IN IF position >= Len(c.obj.buckets) THEN OutOfRange(c)
            ELSE [c EXCEPT !.obj.buckets[position + 1] = bucket_update(@)]

\* histogram_t<histogram1D_t>::update(measurement, measurements...)
histogram2D_update(c, measurement, measurement2) ==
    IF c.crashed THEN c
    ELSE LET position == upper_bound(c.obj.ticks, measurement)
         IN IF position >= Len(c.obj.buckets) THEN OutOfRange(c)
            ELSE LET inner == histogram1D_update(
                                  [c EXCEPT !.obj = c.obj.buckets[position + 1]],
                                  measurement2)
                 IN [inner EXCEPT !.obj =
                        [c.obj EXCEPT !.buckets[position + 1] = inner.obj]]

\* histogram_t<bucket_t>::get(measurement): direct index, no search
histogram1D_get(h, i) == bucket_get(h.buckets[i + 1])

\* histogram_t<histogram1D_t>::get(measurement, measurements...)
histogram2D_get(h, i, j) == histogram1D_get(h.buckets[i + 1], j)

\* histogram_t::get() with no argument
histogram_get0(h) == 0

(***************************************************************************)
(* Documents (rapidjson::Value).  An object is the sequence of its members *)
(* in the order AddMember appended them; a text is the sequence of its     *)
(* pieces: a string literal of the source is one piece, and so is every    *)
(* character std::to_string produces.                                      *)
(***************************************************************************)
JInt(n) == [kind |-> "int", int |-> n, text |-> <<>>, members |-> <<>>]

JString(t) == [kind |-> "string", int |-> 0, text |-> t, members |-> <<>>]

JObject(ms) == [kind |-> "object", int |-> 0, text |-> <<>>, members |-> ms]

Member(name, value) == [name |-> name, value |-> value]

DigitChar(d) ==
    CASE d = 0 -> "0" [] d = 1 -> "1" [] d = 2 -> "2" [] d = 3 -> "3"
      [] d = 4 -> "4" [] d = 5 -> "5" [] d = 6 -> "6" [] d = 7 -> "7"
      [] d = 8 -> "8" [] d = 9 -> "9"

RECURSIVE Digits(_)
Digits(n) ==
    IF n < 10 THEN <<DigitChar(n)>>
    ELSE Append(Digits(n \div 10), DigitChar(n % 10))

\* std::to_string(long long): decimal digits, a leading minus sign
to_string(n) == IF n < 0 THEN <<"-">> \o Digits(-n) ELSE Digits(n)

\* bucket_t::to_json, on an empty object
bucket_to_json(b) == JObject(<<Member(<<"frequency">>, JInt(b.frequency))>>)

\* the label of tick position i (0-based)
label(h, i) == <<"<">> \o to_string(h.ticks[i + 1])

\* (a variant whose loop stops before the sentinel)
histogram1D_to_json_short(h) ==
    JObject([k \in 1..(Len(h.ticks) - 1) |->
                Member(label(h, k - 1), JInt(bucket_get(h.buckets[k])))])

\* histogram_t<bucket_t>::to_json, on an empty object: Bucket is bucket_t,
\* so every member is the number buckets[i].get()
histogram1D_to_json(h) ==
    JObject([k \in 1..Len(h.ticks) |->
                Member(label(h, k - 1), JInt(bucket_get(h.buckets[k])))])

\* histogram_t<histogram1D_t>::to_json, on an empty object: Bucket is not
\* bucket_t, so every member is the object buckets[i].to_json fills
histogram2D_to_json(h) ==
    JObject([k \in 1..Len(h.ticks) |->
                Member(label(h, k - 1), histogram1D_to_json(h.buckets[k]))])

(***************************************************************************)
(* The state.  h1 and h2 are a histogram1D_t and a histogram2D_t used      *)
(* directly; agg is a histogram_aggregator_t<histogram1D_t>; batch is      *)
(* batch_histogram_aggregator_t::histogram_aggregators; last is the last   *)
(* call, with its arguments and what it returned; crashed says that the    *)
(* process has faulted.                                                    *)
(* twin and solo are the objects of a differential run: twin is built like *)
(* agg and solo[i] like batch[i], from the same arguments, and they are    *)
(* driven with the same call trees through the other entry point.          *)
(***************************************************************************)
NoAggregator == [histogram |-> NoHistogram, histogram_updater |-> 0]

Init ==
    /\ h1 = NoHistogram
    /\ h2 = NoHistogram
    /\ agg = NoAggregator
    /\ twin = NoAggregator
    /\ batch = <<>>
    /\ solo = <<>>
    /\ last = [op |-> "none"]
    /\ crashed = FALSE

RECURSIVE SumFrequencies(_)
SumFrequencies(bs) ==
    IF bs = <<>> THEN 0 ELSE bucket_get(Head(bs)) + SumFrequencies(Tail(bs))

\* measurements counted so far by a histogram1D_t and by a histogram2D_t
Total1D(h) == SumFrequencies(h.buckets)

RECURSIVE Total2D(_)
Total2D(h) ==
    IF h.buckets = <<>> THEN 0
    ELSE Total1D(Head(h.buckets)) + Total2D([h EXCEPT !.buckets = Tail(@)])

(***************************************************************************)
(* Operations on a histogram1D_t.                                          *)
(***************************************************************************)
Construct1D(ticks) ==
    /\ ~crashed
    /\ h1 = NoHistogram
    /\ h1' = histogram1D_t(ticks)
    /\ last' = [op |-> "construct", ticks |-> ticks]
    /\ UNCHANGED <<h2, agg, twin, batch, solo, crashed>>

Update1D(m, stray) ==
    /\ ~crashed
    /\ h1 # NoHistogram
    /\ Total1D(h1) < MaxUpdates
    /\ LET c == histogram1D_update(Call(h1, stray), m)
       IN /\ h1' = c.obj
          /\ crashed' = c.crashed
    /\ last' = [op |-> "update", m |-> m]
    /\ UNCHANGED <<h2, agg, twin, batch, solo>>

\* get is called with the position of a bucket that exists
Get1D(i) ==
    /\ ~crashed
    /\ h1 # NoHistogram
    /\ i \in 0..(Len(h1.buckets) - 1)
    /\ last' = [op |-> "get", i |-> i, ret |-> histogram1D_get(h1, i)]
    /\ UNCHANGED <<h1, h2, agg, twin, batch, solo, crashed>>

ToJson1D ==
    /\ ~crashed
    /\ h1 # NoHistogram
    /\ last' = [op |-> "to_json", ret |-> histogram1D_to_json(h1)]
    /\ UNCHANGED <<h1, h2, agg, twin, batch, solo, crashed>>

Next1D ==
    \/ \E ticks \in TickSeqs : Construct1D(ticks)
    \/ \E m \in Measurements, stray \in 0..1 : Update1D(m, stray)
    \/ \E i \in 0..MaxTicks : Get1D(i)
    \/ ToJson1D

SpecHist1D == Init /\ [][Next1D]_vars

(***************************************************************************)
(* Operations on a histogram2D_t.                                          *)
(***************************************************************************)
Construct2D(ticks1, ticks2) ==
    /\ ~crashed
    /\ h2 = NoHistogram
    /\ h2' = histogram2D_t(ticks1, ticks2)
    /\ last' = [op |-> "construct", ticks1 |-> ticks1, ticks2 |-> ticks2]
    /\ UNCHANGED <<h1, agg, twin, batch, solo, crashed>>

Update2D(m1, m2, stray) ==
    /\ ~crashed
    /\ h2 # NoHistogram
    /\ Total2D(h2) < MaxUpdates2D
    /\ LET c == histogram2D_update(Call(h2, stray), m1, m2)
       IN /\ h2' = c.obj
          /\ crashed' = c.crashed
    /\ last' = [op |-> "update", m1 |-> m1, m2 |-> m2]
    /\ UNCHANGED <<h1, agg, twin, batch, solo>>

Get2D(i, j) ==
    /\ ~crashed
    /\ h2 # NoHistogram
    /\ i \in 0..(Len(h2.buckets) - 1)
    /\ j \in 0..(Len(h2.buckets[i + 1].buckets) - 1)
    /\ last' = [op |-> "get", i |-> i, j |-> j, ret |-> histogram2D_get(h2, i, j)]
    /\ UNCHANGED <<h1, h2, agg, twin, batch, solo, crashed>>

ToJson2D ==
    /\ ~crashed
    /\ h2 # NoHistogram
    /\ last' = [op |-> "to_json", ret |-> histogram2D_to_json(h2)]
    /\ UNCHANGED <<h1, h2, agg, twin, batch, solo, crashed>>

Next2D ==
    \/ \E ticks1 \in TickSeqs2D, ticks2 \in TickSeqs2D : Construct2D(ticks1, ticks2)
    \/ \E m1 \in Measurements2D, m2 \in Measurements2D, stray \in 0..1 :
           Update2D(m1, m2, stray)
    \/ \E i \in 0..MaxTicks2D, j \in 0..MaxTicks2D : Get2D(i, j)
    \/ ToJson2D

SpecHist2D == Init /\ [][Next2D]_vars

(***************************************************************************)
(* call_tree_t, as far as the aggregators read it: a call tree is the      *)
(* sequence of its nodes, a node is named by its position.                 *)
(***************************************************************************)
get_node_start_time(call_tree, node) == call_tree[node].start

get_node_stop_time(call_tree, node) == call_tree[node].stop

RECURSIVE NodesWithCode(_, _, _)
NodesWithCode(call_tree, code, from) ==
    IF from > Len(call_tree) THEN <<>>
    ELSE (IF call_tree[from].code = code THEN <<from>> ELSE <<>>)
            \o NodesWithCode(call_tree, code, from + 1)

\* the action-code-to-node index of a call tree: the codes that occur, each
\* with its nodes
get_action_codes_to_nodes_map(call_tree) ==
    [code \in {call_tree[n].code : n \in DOMAIN call_tree} |->
        NodesWithCode(call_tree, code, 1)]

\* actions_set_t::get_action_name
get_action_name(action_code) == <<"action ">> \o to_string(action_code)

(***************************************************************************)
(* action_time_histogram_updater_t; the updater is its action_code.        *)
(***************************************************************************)
\* the loop over action_code_nodes->second: delta is 64 bits wide, update
\* takes an int
RECURSIVE action_time_update_nodes(_, _, _)
action_time_update_nodes(c, call_tree, nodes) ==
    IF nodes = <<>> THEN c
    ELSE LET delta == get_node_stop_time(call_tree, Head(nodes))
                        - get_node_start_time(call_tree, Head(nodes))
         IN action_time_update_nodes(histogram1D_update(c, ToInt(delta)),
                                     call_tree, Tail(nodes))

\* operator()(histogram, call_tree, action_codes_to_nodes_map)
action_time_updater_call(c, action_code, call_tree, action_codes_to_nodes_map) ==
    IF action_code \in DOMAIN action_codes_to_nodes_map
    THEN action_time_update_nodes(c, call_tree, action_codes_to_nodes_map[action_code])
    ELSE c

\* (a variant that measures every node of the tree, whatever its code)
histogram_updater_call_all(c, updater, call_tree) ==
    action_time_update_nodes(c, call_tree, [n \in DOMAIN call_tree |-> n])

\* histogram_updater_t::operator()(histogram, call_tree): derives the index
\* and calls the virtual three-argument operator()
histogram_updater_call(c, updater, call_tree) ==
    action_time_updater_call(c, updater, call_tree,
                             get_action_codes_to_nodes_map(call_tree))

\* action_time_histogram_updater_t::to_json, on an empty object
action_time_updater_to_json(action_code) ==
    JObject(<<Member(<<"name">>, JString(<<"action_time_updater">>)),
              Member(<<"action_name">>, JString(get_action_name(action_code)))>>)

(***************************************************************************)
(* histogram_aggregator_t<histogram1D_t>                                   *)
(***************************************************************************)
histogram_aggregator_t(histogram_updater, ticks) ==
    [histogram |-> histogram1D_t(ticks), histogram_updater |-> histogram_updater]

\* the call c (on an aggregator) continued on its histogram, and back
OnHistogram(c) == [c EXCEPT !.obj = c.obj.histogram]

WithHistogram(c, r) == [r EXCEPT !.obj = [c.obj EXCEPT !.histogram = r.obj]]

\* aggregate(call_tree)
histogram_aggregator_aggregate(c, call_tree) ==
    WithHistogram(c, histogram_updater_call(OnHistogram(c),
                                            c.obj.histogram_updater, call_tree))

\* aggregate(call_tree, action_codes_to_nodes_map)
histogram_aggregator_aggregate_map(c, call_tree, action_codes_to_nodes_map) ==
    WithHistogram(c, action_time_updater_call(OnHistogram(c),
                                              c.obj.histogram_updater, call_tree,
                                              action_codes_to_nodes_map))

\* to_json, on an empty object
histogram_aggregator_to_json(a) ==
    JObject(<<Member(<<"histogram_aggregator">>,
        JObject(<<Member(<<"histogram_updater">>,
                         action_time_updater_to_json(a.histogram_updater)),
                  Member(<<"histogram">>, histogram1D_to_json(a.histogram))>>))>>)

(***************************************************************************)
(* batch_histogram_aggregator_t<histogram1D_t>                             *)
(***************************************************************************)
\* add_histogram_aggregator: emplace_back of a new aggregator
add_histogram_aggregator(histogram_aggregators, histogram_updater, ticks) ==
    Append(histogram_aggregators, histogram_aggregator_t(histogram_updater, ticks))

\* the loop of aggregate from the aggregator at position it on: every
\* iteration calls call_tree.get_action_codes_to_nodes_map().  b is
\* [call, index_computations]: the call on the vector of aggregators and the
\* number of times the index was derived.
RECURSIVE batch_aggregate_from(_, _, _)
batch_aggregate_from(b, call_tree, it) ==
    IF it > Len(b.call.obj) \/ b.call.crashed THEN b
    ELSE LET one == histogram_aggregator_aggregate_map(
                        [b.call EXCEPT !.obj = b.call.obj[it]], call_tree,
                        get_action_codes_to_nodes_map(call_tree))
         IN batch_aggregate_from(
                [call |-> [one EXCEPT !.obj = [b.call.obj EXCEPT ![it] = one.obj]],
                 index_computations |-> b.index_computations + 1],
                call_tree, it + 1)

\* (a variant whose loop starts at the second aggregator)
batch_aggregate_skip(c, call_tree) ==
    batch_aggregate_from([call |-> c, index_computations |-> 0], call_tree, 2)

\* aggregate(call_tree)
batch_aggregate(c, call_tree) ==
    batch_aggregate_from([call |-> c, index_computations |-> 0], call_tree, 1)

\* to_json, on an empty object
batch_to_json(histogram_aggregators) ==
    JObject(<<Member(<<"batch_histogram_aggregator">>,
        JObject(<<Member(<<"histogram_aggregators">>,
            [kind |-> "array", int |-> 0, text |-> <<>>,
             members |-> [k \in DOMAIN histogram_aggregators |->
                            histogram_aggregator_to_json(histogram_aggregators[k])]])>>))>>)

(***************************************************************************)
(* Operations on a histogram_aggregator_t.  twin is driven through         *)
(* aggregate(call_tree, map) with the index derived from the same tree.    *)
(***************************************************************************)
ConstructAggregator(histogram_updater, ticks) ==
    /\ ~crashed
    /\ agg = NoAggregator
    /\ agg' = histogram_aggregator_t(histogram_updater, ticks)
    /\ twin' = histogram_aggregator_t(histogram_updater, ticks)
    /\ last' = [op |-> "construct"]
    /\ UNCHANGED <<h1, h2, batch, solo, crashed>>

Aggregate(call_tree, stray) ==
    /\ ~crashed
    /\ agg # NoAggregator
    /\ LET c == histogram_aggregator_aggregate(Call(agg, stray), call_tree)
           t == histogram_aggregator_aggregate_map(Call(twin, stray), call_tree,
                    get_action_codes_to_nodes_map(call_tree))
       IN /\ Total1D(c.obj.histogram) <= MaxTotal
          /\ agg' = c.obj
          /\ twin' = t.obj
          /\ crashed' = (c.crashed \/ t.crashed)
    /\ last' = [op |-> "aggregate"]
    /\ UNCHANGED <<h1, h2, batch, solo>>

AggregatorToJson ==
    /\ ~crashed
    /\ agg # NoAggregator
    /\ last' = [op |-> "to_json", ret |-> histogram_aggregator_to_json(agg)]
    /\ UNCHANGED <<h1, h2, agg, twin, batch, solo, crashed>>

NextAgg ==
    \/ \E u \in ActionCodes, ticks \in AggTickSeqs : ConstructAggregator(u, ticks)
    \/ \E t \in CallTrees, stray \in 0..MaxNodes : Aggregate(t, stray)
    \/ AggregatorToJson

SpecAgg == Init /\ [][NextAgg]_vars

(***************************************************************************)
(* Operations on a batch_histogram_aggregator_t.  Every solo[i] is driven  *)
(* on its own through aggregate(call_tree).                                *)
(***************************************************************************)
RECURSIVE TotalBatch(_)
TotalBatch(histogram_aggregators) ==
    IF histogram_aggregators = <<>> THEN 0
    ELSE Total1D(Head(histogram_aggregators).histogram)
            + TotalBatch(Tail(histogram_aggregators))

AddAggregator(histogram_updater, ticks) ==
    /\ ~crashed
    /\ Len(batch) < MaxAggregators
    /\ batch' = add_histogram_aggregator(batch, histogram_updater, ticks)
    /\ solo' = Append(solo, histogram_aggregator_t(histogram_updater, ticks))
    /\ last' = [op |-> "add_histogram_aggregator"]
    /\ UNCHANGED <<h1, h2, agg, twin, crashed>>

BatchAggregate(call_tree, stray) ==
    /\ ~crashed
    /\ LET b == batch_aggregate(Call(batch, stray), call_tree)
           s == [k \in DOMAIN solo |->
                    histogram_aggregator_aggregate(Call(solo[k], stray), call_tree)]
       IN /\ TotalBatch(b.call.obj) <= MaxBatchTotal
          /\ batch' = b.call.obj
          /\ solo' = [k \in DOMAIN solo |-> s[k].obj]
          /\ crashed' = (b.call.crashed \/ \E k \in DOMAIN solo : s[k].crashed)
          /\ last' = [op |-> "aggregate", index_computations |-> b.index_computations]
    /\ UNCHANGED <<h1, h2, agg, twin>>

BatchToJson ==
    /\ ~crashed
    /\ last' = [op |-> "to_json", ret |-> batch_to_json(batch)]
    /\ UNCHANGED <<h1, h2, agg, twin, batch, solo, crashed>>

Next ==
    \/ \E u \in ActionCodes, ticks \in BatchTickSeqs : AddAggregator(u, ticks)
    \/ \E t \in BatchCallTrees, stray \in 0..MaxNodes : BatchAggregate(t, stray)
    \/ BatchToJson

Spec == Init /\ [][Next]_vars

(***************************************************************************)
(* An action_time_histogram_updater_t applied to the histogram h1.         *)
(***************************************************************************)
ApplyUpdater(action_code, call_tree, stray) ==
    /\ ~crashed
    /\ h1 # NoHistogram
    /\ LET c == action_time_updater_call(Call(h1, stray), action_code, call_tree,
                    get_action_codes_to_nodes_map(call_tree))
       IN /\ Total1D(c.obj) <= MaxTotal
          /\ h1' = c.obj
          /\ crashed' = c.crashed
    /\ last' = [op |-> "updater", action_code |-> action_code, call_tree |-> call_tree]
    /\ UNCHANGED <<h2, agg, twin, batch, solo>>

NextUpdater ==
    \/ \E ticks \in AggTickSeqs : Construct1D(ticks)
    \/ \E u \in ActionCodes, t \in CallTrees, stray \in 0..MaxNodes :
           ApplyUpdater(u, t, stray)

SpecUpdater == Init /\ [][NextUpdater]_vars

(***************************************************************************)
(* The properties.                                                         *)
(***************************************************************************)
\* the caller's ticks of a histogram: all but the sentinel
RealTicks(h) == SubSeq(h.ticks, 1, Len(h.ticks) - 1)

StrictlyAscending(T) == \A i \in 1..(Len(T) - 1) : T[i] < T[i + 1]

\* the number of ticks of T that are <= m
CountLE(T, m) == Cardinality({i \in DOMAIN T : T[i] <= m})

\* C1: on a one-dimensional histogram with strictly ascending ticks T, one
\* update(m) with m below the largest int adds one to the bucket at position
\* (number of ticks of T <= m) and changes nothing else.
C1_UpdatePosition ==
    [][(/\ h1 # NoHistogram
        /\ last'.op = "update"
        /\ StrictlyAscending(RealTicks(h1))
        /\ last'.m < IntMax)
       => (/\ ~crashed'
           /\ h1' = [h1 EXCEPT
                       !.buckets[CountLE(RealTicks(h1), last'.m) + 1].frequency = @ + 1])]_vars

\* C1 happens: ticks [1, 2], a measurement equal to the tick 1 has been
\* counted in the bucket after that tick.
C1_Witness ==
    /\ last.op = "update"
    /\ last.m = 1
    /\ h1.ticks = <<1, 2, IntMax>>
    /\ h1.buckets = <<[frequency |-> 0], [frequency |-> 1], [frequency |-> 0]>>

\* C2: the position update(m) chooses is a valid index into the children,
\* for every int m, the largest included.
C2_EveryUpdateFindsABucket ==
    (h1 # NoHistogram /\ last.op = "update")
        => upper_bound(h1.ticks, last.m) < Len(h1.buckets)

\* C3: no histogram whose caller-supplied ticks are not strictly ascending
\* exists: its construction fails.
C3_NonAscendingTicksRejected ==
    h1 # NoHistogram => StrictlyAscending(RealTicks(h1))

\* C4: one aggregate(trace) of the batch derives the action-code-to-node
\* index exactly once, however many aggregators the batch holds.
C4_IndexComputedOnce ==
    last.op = "aggregate" => last.index_computations = 1

\* C5: driven with the same call trees, aggregate(trace) and
\* aggregate(trace, index of that trace) leave the same bucket frequencies.
C5_SameFrequencies ==
    ~crashed => agg.histogram.buckets = twin.histogram.buckets

\* C5 happens: an aggregate has counted two measurements.
C5_Witness ==
    /\ ~crashed
    /\ last.op = "aggregate"
    /\ Total1D(agg.histogram) = 2
    /\ Total1D(twin.histogram) = 2

\* C6: after any sequence of batch aggregates, every aggregator of the batch
\* holds the frequencies its own aggregate(trace) gives on the same trees.
C6_BatchEqualsSolo ==
    ~crashed =>
        /\ Len(batch) = Len(solo)
        /\ \A k \in DOMAIN batch :
              batch[k].histogram.buckets = solo[k].histogram.buckets

\* C6 happens: two aggregators with different updaters and different ticks
\* have each counted a measurement.
C6_Witness ==
    /\ ~crashed
    /\ last.op = "aggregate"
    /\ Len(batch) = 2
    /\ batch[1].histogram_updater # batch[2].histogram_updater
    /\ batch[1].histogram.ticks # batch[2].histogram.ticks
    /\ Total1D(batch[1].histogram) = 1
    /\ Total1D(batch[2].histogram) = 1

\* the nodes of a call tree tagged code whose duration, stop time minus
\* start time, lies in the bucket at position p of the ticks T
NodesInBucket(call_tree, code, T, p) ==
    {n \in DOMAIN call_tree :
        /\ call_tree[n].code = code
        /\ CountLE(T, call_tree[n].stop - call_tree[n].start) = p}

\* C7: an action-time updater bound to code c adds to every bucket the
\* number of nodes tagged c whose duration lies in the bucket's interval,
\* for every duration: one at or above the last tick, however large, is
\* counted in the last bucket.
C7_CountsByDuration ==
    [][(h1 # NoHistogram /\ last'.op = "updater")
       => \A k \in DOMAIN h1.buckets :
             /\ k \in DOMAIN h1'.buckets
             /\ h1'.buckets[k].frequency =
                  h1.buckets[k].frequency
                    + Cardinality(NodesInBucket(last'.call_tree, last'.action_code,
                                                RealTicks(h1), k - 1))]_vars

\* C8: on a two-dimensional histogram update(m1, m2) adds one to the cell
\* (number of outer ticks <= m1, number of inner ticks <= m2) and changes no
\* other cell.
C8_UpdateCell ==
    [][(h2 # NoHistogram /\ last'.op = "update")
       => LET i == CountLE(RealTicks(h2), last'.m1) + 1
              j == CountLE(RealTicks(h2.buckets[1]), last'.m2) + 1
          IN h2' = [h2 EXCEPT !.buckets[i].buckets[j].frequency = @ + 1]]_vars

DigitValue(ch) ==
    CASE ch = "0" -> 0 [] ch = "1" -> 1 [] ch = "2" -> 2 [] ch = "3" -> 3
      [] ch = "4" -> 4 [] ch = "5" -> 5 [] ch = "6" -> 6 [] ch = "7" -> 7
      [] ch = "8" -> 8 [] ch = "9" -> 9

RECURSIVE NaturalValue(_)
NaturalValue(t) ==
    IF t = <<>> THEN 0
    ELSE 10 * NaturalValue(SubSeq(t, 1, Len(t) - 1)) + DigitValue(t[Len(t)])

\* the integer a decimal text denotes
DecimalValue(t) == IF t[1] = "-" THEN -NaturalValue(Tail(t)) ELSE NaturalValue(t)

\* name is "<" followed by the decimal text of tick
IsLabel(name, tick) ==
    /\ Len(name) >= 2
    /\ name[1] = "<"
    /\ DecimalValue(Tail(name)) = tick

\* v is the Bucket document {"frequency": n} of the bucket b
BucketDocument(v, b) ==
    /\ v.kind = "object"
    /\ Len(v.members) = 1
    /\ v.members[1].name = <<"frequency">>
    /\ v.members[1].value.kind = "int"
    /\ v.members[1].value.int = b.frequency

\* v is the bare number n, the frequency of the bucket b
FrequencyNumber(v, b) == v.kind = "int" /\ v.int = b.frequency

\* v is an object with one member per tick position of h, the sentinel
\* last and rendered as the largest int, each labelled with its tick and
\* holding the document of the child at that position
HistogramDocument(v, h, ChildDocument(_, _)) ==
    /\ v.kind = "object"
    /\ Len(v.members) = Len(h.buckets)
    /\ \A k \in DOMAIN v.members :
          /\ IsLabel(v.members[k].name, h.ticks[k])
          /\ ChildDocument(v.members[k].value, h.buckets[k])
    /\ IsLabel(v.members[Len(v.members)].name, IntMax)

LeafHistogramWithBucketDocuments(v, h) == HistogramDocument(v, h, BucketDocument)

LeafHistogramWithNumbers(v, h) == HistogramDocument(v, h, FrequencyNumber)

\* C9 as stated: the serialized histogram has one entry per tick position,
\* labelled "<" and the tick, holding the child's document: a nested
\* Histogram document, or the Bucket document {"frequency": n} of a leaf.
C9_LeafIsBucketDocument ==
    (h2 # NoHistogram /\ last.op = "to_json")
        => HistogramDocument(last.ret, h2, LeafHistogramWithBucketDocuments)

\* C9 as amended: the same, but the entry of a leaf bucket holds the bare
\* number n, the bucket's frequency, not a Bucket document.
C9_LeafIsNumber ==
    (h2 # NoHistogram /\ last.op = "to_json")
        => HistogramDocument(last.ret, h2, LeafHistogramWithNumbers)

\* C9 happens: a two-by-two histogram that has counted a measurement has
\* been serialized.
C9_Witness ==
    /\ last.op = "to_json"
    /\ Len(h2.buckets) = 2
    /\ Len(h2.buckets[2].buckets) = 2
    /\ h2.buckets[2].buckets[2].frequency = 1

\* C10: the buckets of an aggregator start at 0 when it is constructed, no
\* call lowers a frequency, and serializing changes none.
C10_Monotonic ==
    [][/\ \A k \in DOMAIN batch :
            /\ k \in DOMAIN batch'
            /\ DOMAIN batch'[k].histogram.buckets = DOMAIN batch[k].histogram.buckets
            /\ \A j \in DOMAIN batch[k].histogram.buckets :
                  batch'[k].histogram.buckets[j].frequency
                    >= batch[k].histogram.buckets[j].frequency
       /\ \A k \in DOMAIN batch' \ DOMAIN batch :
            \A j \in DOMAIN batch'[k].histogram.buckets :
                batch'[k].histogram.buckets[j].frequency = 0
       /\ (last'.op = "to_json" => batch' = batch)]_vars

\* C10 happens: a bucket has been incremented twice and then serialized.
C10_Witness ==
    /\ last.op = "to_json"
    /\ \E k \in DOMAIN batch : \E j \in DOMAIN batch[k].histogram.buckets :
          batch[k].histogram.buckets[j].frequency = 2

====
